---- MODULE Spec2Model ----
(***************************************************************************)
(* Model of the Interview Helper two-stage CLI (src/app.py).               *)
(*                                                                         *)
(* Texts are sequences of one-character strings.  json.loads is modelled   *)
(* as the recursive-descent decoder it is.  No text of the model holds a   *)
(* '-', '+', '.', backslash or upper-case letter, so the JSON productions  *)
(* that need them (signs, fractions, escapes, NaN, Infinity) are left out  *)
(* of the decoder; a Markdown fence is written with tildes.                *)
(* Writing plan.json and output.md is assumed to succeed.                  *)
(***************************************************************************)
EXTENDS Integers, Sequences, FiniteSets, TLC

\* ------------------------------------------------------------------------
\* Bounds
\* ------------------------------------------------------------------------
\* longest text enumerated exhaustively over ShortChars
MaxLen == 2
\* most items in a list of a generated plan record
MaxItems == 1
\* most lines typed into one prompt_multiline call
MaxLines == 2

\* ------------------------------------------------------------------------
\* Characters and Python values
\* ------------------------------------------------------------------------
Q == "\""
NL == "\n"
WHITESPACE == {" ", "\t", "\n", "\r"}
ControlChars == {"\t", "\n", "\r"}
Digits == {"0", "1", "2", "3", "4", "5", "6", "7", "8", "9"}

DigitVal(c) ==
    CASE c = "0" -> 0 [] c = "1" -> 1 [] c = "2" -> 2 [] c = "3" -> 3
      [] c = "4" -> 4 [] c = "5" -> 5 [] c = "6" -> 6 [] c = "7" -> 7
      [] c = "8" -> 8 [] c = "9" -> 9

\* Python values are tagged records [t, v]; None is the value of both the
\* Python None and the JSON null.
NoneVal == [t |-> "None", v |-> <<>>]
BoolVal(b) == [t |-> "bool", v |-> b]
IntVal(n) == [t |-> "int", v |-> n]
FloatVal(n) == [t |-> "float", v |-> n]
StrVal(s) == [t |-> "str", v |-> s]
ListVal(s) == [t |-> "list", v |-> s]
DictVal(pairs) == [t |-> "dict", v |-> pairs]

\* Python truth value, as used by `if not plan_data` and `if data`
Truthy(x) ==
    CASE x.t = "None" -> FALSE
      [] x.t = "bool" -> x.v
      [] x.t = "int" -> x.v # 0
      [] x.t = "float" -> x.v # 0
      [] x.t \in {"str", "list", "dict"} -> Len(x.v) > 0

\* s[i:i+1] with a 0-based index: the character, or "" past the end
At(s, i) == IF i >= 0 /\ i < Len(s) THEN s[i + 1] ELSE ""

\* s[a:b] with 0-based indices 0 <= a, b clipped to the length as Python does
Slice(s, a, b) ==
    LET hi == IF b > Len(s) THEN Len(s) ELSE b
    IN IF hi <= a THEN <<>> ELSE SubSeq(s, a + 1, hi)

\* ------------------------------------------------------------------------
\* json.loads
\* ------------------------------------------------------------------------
Ok(val, end) == [ok |-> TRUE, val |-> val, end |-> end, msg |-> "", pos |-> 0]
Err(msg, pos) == [ok |-> FALSE, val |-> NoneVal, end |-> 0, msg |-> msg, pos |-> pos]

RECURSIVE SkipWs(_, _)
SkipWs(s, i) == IF At(s, i) \in WHITESPACE THEN SkipWs(s, i + 1) ELSE i

RECURSIVE SkipDigits(_, _)
SkipDigits(s, i) == IF At(s, i) \in Digits THEN SkipDigits(s, i + 1) ELSE i

RECURSIVE DigitsVal(_, _, _, _)
DigitsVal(s, i, j, acc) ==
    IF i >= j THEN acc ELSE DigitsVal(s, i + 1, j, acc * 10 + DigitVal(s[i + 1]))

RECURSIVE Pow10(_)
Pow10(n) == IF n = 0 THEN 1 ELSE 10 * Pow10(n - 1)

\* the number matched from i to intEnd, with its exponent when one follows
NumberAt(s, i, intEnd, hasExp) ==
    IF intEnd = i THEN Err("no number", i)
    ELSE IF hasExp
         THEN Ok(FloatVal(DigitsVal(s, i, intEnd, 0)
                          * Pow10(DigitsVal(s, intEnd + 1, SkipDigits(s, intEnd + 1), 0))),
                 SkipDigits(s, intEnd + 1))
         ELSE Ok(IntVal(DigitsVal(s, i, intEnd, 0)), intEnd)

\* the end of the integer part (0|[1-9]\d*) starting at i; i when there is none
IntEnd(s, i) ==
    IF At(s, i) = "0" THEN i + 1 ELSE IF At(s, i) \in Digits THEN SkipDigits(s, i) ELSE i

\* an exponent [eE]\d+ follows at intEnd
HasExp(s, intEnd) == At(s, intEnd) \in {"e", "E"} /\ At(s, intEnd + 1) \in Digits

\* NUMBER_RE.match(s, i): (0|[1-9]\d*)([eE]\d+)? ; an exponent makes a float
MatchNumber(s, i) == NumberAt(s, i, IntEnd(s, i), HasExp(s, IntEnd(s, i)))

\* scanstring(s, begin, strict=True): begin is the index after the opening quote
RECURSIVE ScanStringFrom(_, _, _)
ScanStringFrom(s, begin, i) ==
    LET c == At(s, i)
    IN IF c = "" THEN Err("Unterminated string starting at", begin - 1)
       ELSE IF c = Q THEN Ok(StrVal(Slice(s, begin, i)), i + 1)
       ELSE IF c \in ControlChars THEN Err("Invalid control character at", i)
       ELSE ScanStringFrom(s, begin, i + 1)

scanstring(s, begin) == ScanStringFrom(s, begin, begin)

\* dict(pairs): a later value for a key replaces the earlier one in place
RECURSIVE DictPut(_, _, _)
DictPut(pairs, k, val) ==
    IF pairs = <<>> THEN << <<k, val>> >>
    ELSE IF Head(pairs)[1] = k THEN << <<k, val>> >> \o Tail(pairs)
    ELSE <<Head(pairs)>> \o DictPut(Tail(pairs), k, val)

RECURSIVE scan_once(_, _)
RECURSIVE ObjectLoop(_, _, _)
RECURSIVE ArrayLoop(_, _, _)

\* after a value of an object: '}' ends it, ',' leads to the next pair
ObjectNext(s, pairs, nxt) ==
    IF At(s, nxt) = "}" THEN Ok(DictVal(pairs), nxt + 1)
    ELSE IF At(s, nxt) # "," THEN Err("Expecting ',' delimiter", nxt)
    ELSE ObjectLoop(s, SkipWs(s, nxt + 1), pairs)

\* the value scanned for key k
ObjectValue(s, pairs, k, value) ==
    IF ~value.ok THEN value
    ELSE ObjectNext(s, DictPut(pairs, k, value.val), SkipWs(s, value.end))

\* after the key k: the ':' delimiter, then the value
ObjectColon(s, pairs, k, colon) ==
    IF At(s, colon) # ":" THEN Err("Expecting ':' delimiter", colon)
    ELSE ObjectValue(s, pairs, k, scan_once(s, SkipWs(s, colon + 1)))

\* the key scanned by scanstring
ObjectKey(s, pairs, key) ==
    IF ~key.ok THEN key ELSE ObjectColon(s, pairs, key.val.v, SkipWs(s, key.end))

\* one "key": value pair of an object, idx at the key's opening quote
ObjectLoop(s, idx, pairs) ==
    IF At(s, idx) # Q
    THEN Err("Expecting property name enclosed in double quotes", idx)
    ELSE ObjectKey(s, pairs, scanstring(s, idx + 1))

\* the first pair of an object, or its end when it is empty
ObjectFirst(s, first) ==
    IF At(s, first) = "}" THEN Ok(DictVal(<<>>), first + 1) ELSE ObjectLoop(s, first, <<>>)

\* JSONObject: idx is the index after '{'
JSONObject(s, idx) == ObjectFirst(s, SkipWs(s, idx))

\* after an element of an array: ']' ends it, ',' leads to the next element
ArrayNext(s, values, nxt) ==
    IF At(s, nxt) = "]" THEN Ok(ListVal(values), nxt + 1)
    ELSE IF At(s, nxt) # "," THEN Err("Expecting ',' delimiter", nxt)
    ELSE ArrayLoop(s, SkipWs(s, nxt + 1), values)

\* the element scanned
ArrayValue(s, values, value) ==
    IF ~value.ok THEN value
    ELSE ArrayNext(s, Append(values, value.val), SkipWs(s, value.end))

\* one element of an array, idx at the element's first character
ArrayLoop(s, idx, values) == ArrayValue(s, values, scan_once(s, idx))

\* the first element of an array, or its end when it is empty
ArrayFirst(s, first) ==
    IF At(s, first) = "]" THEN Ok(ListVal(<<>>), first + 1) ELSE ArrayLoop(s, first, <<>>)

\* JSONArray: idx is the index after '['
JSONArray(s, idx) == ArrayFirst(s, SkipWs(s, idx))

\* match_number's result, or StopIteration(idx) when nothing matched
NumberOrStop(m, idx) == IF m.ok THEN m ELSE Err("Expecting value", idx)

\* scan_once: StopIteration(idx) surfaces in every caller as
\* JSONDecodeError("Expecting value", s, idx)
scan_once(s, idx) ==
    IF At(s, idx) = Q THEN scanstring(s, idx + 1)
    ELSE IF At(s, idx) = "{" THEN JSONObject(s, idx + 1)
    ELSE IF At(s, idx) = "[" THEN JSONArray(s, idx + 1)
    ELSE IF At(s, idx) = "n" /\ Slice(s, idx, idx + 4) = <<"n", "u", "l", "l">>
         THEN Ok(NoneVal, idx + 4)
    ELSE IF At(s, idx) = "t" /\ Slice(s, idx, idx + 4) = <<"t", "r", "u", "e">>
         THEN Ok(BoolVal(TRUE), idx + 4)
    ELSE IF At(s, idx) = "f" /\ Slice(s, idx, idx + 5) = <<"f", "a", "l", "s", "e">>
         THEN Ok(BoolVal(FALSE), idx + 5)
    ELSE NumberOrStop(MatchNumber(s, idx), idx)

\* position of a JSONDecodeError: line and column of char pos in doc
RECURSIVE CountNL(_, _)
CountNL(s, n) == IF n = 0 THEN 0 ELSE CountNL(s, n - 1) + (IF s[n] = NL THEN 1 ELSE 0)

RECURSIVE LastNL(_, _)
LastNL(s, n) == IF n = 0 THEN 0 ELSE IF s[n] = NL THEN n ELSE LastNL(s, n - 1)

\* str(JSONDecodeError(msg, doc, pos)) = "msg: line L column C (char pos)"
JSONDecodeError(msg, doc, pos) ==
    [msg |-> msg, lineno |-> CountNL(doc, pos) + 1,
     colno |-> pos - LastNL(doc, pos) + 1, pos |-> pos]

\* decode(): the value r scanned by raw_decode must end the document at end
Decoded(s, r, end) ==
    IF ~r.ok THEN [ok |-> FALSE, val |-> NoneVal, e |-> JSONDecodeError(r.msg, s, r.pos)]
    ELSE IF end # Len(s)
         THEN [ok |-> FALSE, val |-> NoneVal, e |-> JSONDecodeError("Extra data", s, end)]
    ELSE [ok |-> TRUE, val |-> r.val, e |-> JSONDecodeError("", <<>>, 0)]

\* the whitespace after the scanned value is skipped
DecodedTo(s, r) == Decoded(s, r, IF r.ok THEN SkipWs(s, r.end) ELSE 0)

\* json.loads(s): [ok, val, e]
loads(s) == DecodedTo(s, scan_once(s, SkipWs(s, 0)))

\* ------------------------------------------------------------------------
\* str helpers
\* ------------------------------------------------------------------------
RECURSIVE lstrip(_)
lstrip(s) == IF s # <<>> /\ Head(s) \in WHITESPACE THEN lstrip(Tail(s)) ELSE s

RECURSIVE rstrip(_)
rstrip(s) ==
    IF s # <<>> /\ s[Len(s)] \in WHITESPACE THEN rstrip(SubSeq(s, 1, Len(s) - 1)) ELSE s

\* str.strip()
strip(s) == rstrip(lstrip(s))

\* c in s
Contains(s, c) == \E i \in 1..Len(s) : s[i] = c

\* s.find(c), s.rfind(c): 0-based index, for a c that occurs in s
find(s, c) == (CHOOSE i \in 1..Len(s) : s[i] = c /\ \A j \in 1..(i - 1) : s[j] # c) - 1
rfind(s, c) == (CHOOSE i \in 1..Len(s) : s[i] = c /\ \A j \in (i + 1)..Len(s) : s[j] # c) - 1

\* "\n".join(lines)
RECURSIVE join(_)
join(lines) ==
    IF lines = <<>> THEN <<>>
    ELSE IF Len(lines) = 1 THEN lines[1]
    ELSE lines[1] \o <<NL>> \o join(Tail(lines))

\* ------------------------------------------------------------------------
\* try_parse_json_once
\* ------------------------------------------------------------------------
\* the error string of a failed parse: which f-string built it, and str(e)
NoError == [kind |-> "None", e |-> JSONDecodeError("", <<>>, 0)]
ParseError(kind, e) == [kind |-> kind, e |-> e]

\* variant: the slice stops before the last closing brace
CandidateOffByOne(raw_text) == Slice(raw_text, find(raw_text, "{"), rfind(raw_text, "}"))

\* raw_text[raw_text.find("{"): raw_text.rfind("}") + 1]
Candidate(raw_text) == Slice(raw_text, find(raw_text, "{"), rfind(raw_text, "}") + 1)

\* the condition under which the substring heuristic is tried
HeuristicApplies(raw_text) == Contains(raw_text, "{") /\ Contains(raw_text, "}")

\* variant: the failure of the second decode is reported under the label of
\* the first
SubstringDecodeFirstLabel(second) ==
    IF second.ok
    THEN [data |-> second.val, err |-> NoError, attempts |-> 2]
    ELSE [data |-> NoneVal,
          err |-> ParseError("JSON parsing failed: ", second.e),
          attempts |-> 2]

\* the except branch once the substring decode returned second
SubstringDecode(second) ==
    IF second.ok
    THEN [data |-> second.val, err |-> NoError, attempts |-> 2]
    ELSE [data |-> NoneVal,
          err |-> ParseError("JSON parsing failed (initial + substring): ", second.e),
          attempts |-> 2]

\* the body of the function once the first decode returned first
FirstDecode(raw_text, first) ==
    IF first.ok
    THEN [data |-> first.val, err |-> NoError, attempts |-> 1]
    ELSE IF HeuristicApplies(raw_text)
         THEN SubstringDecode(loads(Candidate(raw_text)))
         ELSE [data |-> NoneVal,
               err |-> ParseError("JSON parsing failed: ", first.e),
               attempts |-> 1]

\* returns (data, error_message); attempts counts the json.loads calls made
try_parse_json_once(raw_text) == FirstDecode(raw_text, loads(raw_text))

\* ------------------------------------------------------------------------
\* json.dumps / json.dump
\* ------------------------------------------------------------------------
RECURSIVE IntDigits(_)
IntDigits(n) ==
    LET d == <<"0", "1", "2", "3", "4", "5", "6", "7", "8", "9">>[(n % 10) + 1]
    IN IF n < 10 THEN <<d>> ELSE IntDigits(n \div 10) \o <<d>>

RECURSIVE Spaces(_)
Spaces(n) == IF n = 0 THEN <<>> ELSE <<" ">> \o Spaces(n - 1)

\* style "compact": json.dumps(x); "indent": json.dump(x, f, indent=2);
\* "tight": json.dumps(x, separators=(",", ":"))
ItemSep(style, level) ==
    CASE style = "compact" -> <<",", " ">>
      [] style = "tight" -> <<",">>
      [] style = "indent" -> <<",", NL>> \o Spaces(2 * level)
KeySep(style) == IF style = "tight" THEN <<":">> ELSE <<":", " ">>
Open(style, level) == IF style = "indent" THEN <<NL>> \o Spaces(2 * level) ELSE <<>>

RECURSIVE DumpsAt(_, _, _)
RECURSIVE DumpItems(_, _, _, _)
\* the items of a list (isDict = FALSE) or the pairs of a dict, separated
DumpItems(items, isDict, style, level) ==
    LET key == IF isDict THEN <<Q>> \o Head(items)[1] \o <<Q>> \o KeySep(style) ELSE <<>>
        value == IF isDict THEN Head(items)[2] ELSE Head(items)
    IN key \o DumpsAt(value, style, level)
       \o (IF Len(items) = 1 THEN <<>>
           ELSE ItemSep(style, level) \o DumpItems(Tail(items), isDict, style, level))

DumpsAt(x, style, level) ==
    CASE x.t = "None" -> <<"n", "u", "l", "l">>
      [] x.t = "bool" -> IF x.v THEN <<"t", "r", "u", "e">> ELSE <<"f", "a", "l", "s", "e">>
      [] x.t = "int" -> IntDigits(x.v)
      [] x.t = "float" -> IntDigits(x.v) \o <<".", "0">>
      [] x.t = "str" -> <<Q>> \o x.v \o <<Q>>
      [] x.t \in {"list", "dict"} ->
            LET isDict == x.t = "dict"
                open == IF isDict THEN <<"{">> ELSE <<"[">>
                close == IF isDict THEN <<"}">> ELSE <<"]">>
            IN IF x.v = <<>> THEN open \o close
               ELSE open \o Open(style, level + 1)
                    \o DumpItems(x.v, isDict, style, level + 1)
                    \o Open(style, level) \o close

dumps(x, style) == DumpsAt(x, style, 0)


\* ------------------------------------------------------------------------
\* Texts the generation service and the user can produce
\* ------------------------------------------------------------------------
KeySteps == <<"s", "t", "e", "p", "s">>
KeyAssumptions == <<"a", "s", "s", "u", "m", "p", "t", "i", "o", "n", "s">>
KeySuccessCriteria ==
    <<"s", "u", "c", "c", "e", "s", "s", "_", "c", "r", "i", "t", "e", "r", "i", "a">>

\* the three-field plan record the planner prompt asks for
PlanRecord(steps, assumptions, success_criteria) ==
    DictVal(<< <<KeySteps, ListVal(steps)>>,
               <<KeyAssumptions, ListVal(assumptions)>>,
               <<KeySuccessCriteria, ListVal(success_criteria)>> >>)

ItemLists == {[i \in 1..n |-> StrVal(<<"a">>)] : n \in 0..MaxItems}
SchemaRecords == {PlanRecord(a, b, c) : a \in ItemLists, b \in ItemLists, c \in ItemLists}
Styles == {"compact", "indent", "tight"}
SchemaTexts == {dumps(r, st) : r \in SchemaRecords, st \in Styles}

\* every text of length 1..MaxLen over ShortChars
ShortChars == {"{", "}", "[", "]", "0", "x"}
ShortTexts == UNION {[1..n -> ShortChars] : n \in 1..MaxLen}

\* one JSON object with text before and after it
\* a Markdown code fence (the tilde form)
Fence == <<"~", "~", "~">>
Prefixes == {Fence \o <<"j", "s", "o", "n", NL>>, <<"x", " ">>, <<"{", "x", " ">>, <<"[">>, <<" ">>}
Suffixes == {<<NL>> \o Fence, <<" ", "x">>, <<" ", "}">>, <<"]">>, <<" ">>}
EmbeddedObjects ==
    {DictVal(<<>>),
     DictVal(<< <<KeySteps, IntVal(0)>> >>),
     PlanRecord(<<StrVal(<<"a">>)>>, <<>>, <<>>)}
EmbeddedCases ==
    [prefix : Prefixes, obj : EmbeddedObjects, style : {"compact", "tight"}, suffix : Suffixes]
EmbeddedText(c) == c.prefix \o dumps(c.obj, c.style) \o c.suffix
EmbeddedTexts == {EmbeddedText(c) : c \in EmbeddedCases}

OtherTexts ==
    {<<>>, <<"n", "u", "l", "l">>, <<"t", "r", "u", "e">>, <<"f", "a", "l", "s", "e">>,
     <<Q, Q>>, <<Q, "a", Q>>, <<"[", "0", "]">>, <<"1">>, <<"1", "e", "1">>, <<"0", "e", "0">>,
     <<"x", " ", "}", " ", "{", " ", "x">>}

\* resp.output_text of the planning call
PlanTexts == SchemaTexts \cup ShortTexts \cup EmbeddedTexts \cup OtherTexts

\* resp.output_text of the repair call
RepairTexts ==
    {dumps(PlanRecord(<<StrVal(<<"a">>)>>, <<>>, <<>>), "compact"),
     Fence \o <<NL>> \o dumps(PlanRecord(<<>>, <<>>, <<>>), "tight") \o <<NL>> \o Fence,
     <<"{", "}">>, <<"[", "]">>, <<"[", "0", "]">>, <<"0">>, <<"1">>, <<"n", "u", "l", "l">>,
     <<Q, Q>>, <<>>, <<"x">>, <<"{">>, <<"}", "{">>, <<"x", " ", "{", "}">>}

\* try_parse_json_once on each text the service may return, and json.dump
\* (indent=2) and json.dumps of each value it yields, computed once: the
\* actions below look the results up
ParseResults == {<<text, try_parse_json_once(text)>> : text \in PlanTexts \cup RepairTexts}
ParseResult(raw_text) == (CHOOSE p \in ParseResults : p[1] = raw_text)[2]
Renderings ==
    {<<p[2].data, [indent |-> dumps(p[2].data, "indent"),
                   compact |-> dumps(p[2].data, "compact")]>> : p \in ParseResults}
Rendering(x) == (CHOOSE p \in Renderings : p[1] = x)[2]

\* resp.output_text of the answering call
AnswerTexts == {<<>>, <<"x">>, <<"#", " ", "x", NL>>}

\* str(e) of an exception raised by the client
TransportErrors == {"connection error"}

\* what input() can return; EOF stands for EOFError
EOF == <<"EOF">>
LineSet == {<<>>, <<" ">>, <<"x">>}


\* ------------------------------------------------------------------------
\* State of one run of main()
\* ------------------------------------------------------------------------
VARIABLES
    pc,                 \* position in main()
    line,               \* what the last input() returned (EOF: it raised EOFError)
    lines,              \* prompt_multiline's list of collected lines
    role, interviewer_title, job_description, resume_text,
    plan_raw,           \* text returned by the planning call
    plan_data,          \* decoded plan (NoneVal while there is none)
    parse_err,          \* error message of try_parse_json_once(plan_raw)
    parse_attempts,     \* json.loads calls try_parse_json_once(plan_raw) made
    repaired,           \* main's flag: the plan came from the repair
    repair_err,         \* error text returned by attempt_model_repair
    final_md,           \* text returned by the answering call
    requests,           \* generation requests issued so far, in order
    plan_file,          \* plan.json: writes made by this run and content
    output_file,        \* output.md: writes made by this run and content
    out,                \* lines printed for the user
    events,             \* requests and file writes in the order they happened
    escaped             \* the exception that left main(), "" if none

vars == <<pc, line, lines, role, interviewer_title, job_description, resume_text,
          plan_raw, plan_data, parse_err, parse_attempts, repaired, repair_err,
          final_md, requests, plan_file, output_file, out, events, escaped>>

inputVars == <<role, interviewer_title, job_description, resume_text>>
planVars == <<plan_raw, plan_data, parse_err, parse_attempts, repaired, repair_err>>
ioVars == <<requests, plan_file, output_file, events>>

NoFile == [writes |-> 0, content |-> <<>>]
NoRepairErr == [set |-> FALSE, raw |-> <<>>, err |-> NoError]

Init ==
    /\ pc = "start"
    /\ line = <<>>
    /\ lines = <<>>
    /\ role = <<>>
    /\ interviewer_title = <<>>
    /\ job_description = <<>>
    /\ resume_text = <<>>
    /\ plan_raw = <<>>
    /\ plan_data = NoneVal
    /\ parse_err = NoError
    /\ parse_attempts = 0
    /\ repaired = FALSE
    /\ repair_err = NoRepairErr
    /\ final_md = <<>>
    /\ requests = <<>>
    /\ plan_file = NoFile
    /\ output_file = NoFile
    /\ out = <<>>
    /\ events = <<>>
    /\ escaped = ""

\* variant: the resume is left out of the user prompt
RequestDropsResume(stage, system, broken_text, plan_json) ==
    [stage |-> stage, system |-> system,
     role |-> role, interviewer_title |-> interviewer_title,
     job_description |-> job_description, resume_text |-> <<>>,
     broken_text |-> broken_text, plan_json |-> plan_json]

\* a GenerationRequest: the system prompt and what the user prompt embeds
Request(stage, system, broken_text, plan_json) ==
    [stage |-> stage, system |-> system,
     role |-> role, interviewer_title |-> interviewer_title,
     job_description |-> job_description, resume_text |-> resume_text,
     broken_text |-> broken_text, plan_json |-> plan_json]

\* ------------------------------------------------------------------------
\* Credential check and input collection
\* ------------------------------------------------------------------------
\* api_key = os.getenv("OPENAI_API_KEY"); if not api_key: print; return
CheckApiKey ==
    /\ pc = "start"
    /\ \E has_key \in BOOLEAN :
          IF has_key
          THEN pc' = "role_in" /\ out' = out
          ELSE /\ pc' = "failed"
               /\ out' = Append(out, "Error: OPENAI_API_KEY not found.")
    /\ UNCHANGED <<line, lines, inputVars, planVars, final_md, ioVars, escaped>>

ReadPc == {"role_in", "title_in", "jd_in", "resume_in"}
GotPc(p) ==
    CASE p = "role_in" -> "role_got" [] p = "title_in" -> "title_got"
      [] p = "jd_in" -> "jd_got" [] p = "resume_in" -> "resume_got"

\* input(): the user types a line or ends the input; once MaxLines lines are
\* collected the user goes on with a blank line or the end of input
Input ==
    /\ pc \in ReadPc
    /\ \E l \in LineSet \cup {EOF} :
          /\ Len(lines) >= MaxLines => l \in {<<>>, <<" ">>, EOF}
          /\ line' = l
    /\ pc' = GotPc(pc)
    /\ UNCHANGED <<lines, inputVars, planVars, final_md, ioVars, out, escaped>>

\* role = input(...).strip(); an EOFError is not caught
AssignRole ==
    /\ pc = "role_got"
    /\ IF line = EOF
       THEN pc' = "crashed" /\ escaped' = "EOFError" /\ role' = role
       ELSE pc' = "title_in" /\ escaped' = escaped /\ role' = strip(line)
    /\ line' = <<>>
    /\ UNCHANGED <<lines, interviewer_title, job_description, resume_text,
                   planVars, final_md, ioVars, out>>

\* interviewer_title = input(...).strip()
AssignTitle ==
    /\ pc = "title_got"
    /\ IF line = EOF
       THEN pc' = "crashed" /\ escaped' = "EOFError" /\ interviewer_title' = interviewer_title
       ELSE pc' = "jd_in" /\ escaped' = escaped /\ interviewer_title' = strip(line)
    /\ line' = <<>>
    /\ UNCHANGED <<lines, role, job_description, resume_text,
                   planVars, final_md, ioVars, out>>

\* variant: any blank line ends the loop, collected lines or not
StopsReadingAnyBlank(l, collected) == l = EOF \/ strip(l) = <<>>

\* the loop test of prompt_multiline: EOFError or a blank line after at least
\* one collected line ends the loop
StopsReading(l, collected) == l = EOF \/ (strip(l) = <<>> /\ Len(collected) > 0)

\* return "\n".join(lines).strip()
PromptResult(collected) == strip(join(collected))

\* one pass of prompt_multiline's loop on the line just read
PromptMultilineStep ==
    /\ pc \in {"jd_got", "resume_got"}
    /\ IF StopsReading(line, lines)
       THEN /\ lines' = <<>>
            /\ line' = <<>>
            /\ IF pc = "jd_got"
               THEN /\ job_description' = PromptResult(lines)
                    /\ resume_text' = resume_text
                    /\ pc' = "resume_in"
               ELSE /\ resume_text' = PromptResult(lines)
                    /\ job_description' = job_description
                    /\ pc' = "check"
       ELSE /\ lines' = Append(lines, line)
            /\ pc' = IF pc = "jd_got" THEN "jd_in" ELSE "resume_in"
            /\ UNCHANGED <<line, job_description, resume_text>>
    /\ UNCHANGED <<role, interviewer_title, planVars, final_md, ioVars, out, escaped>>

\* variant: the resume is left out of the completeness test
InputsCompleteNoResume(r, t, jd, res) == r # <<>> /\ t # <<>> /\ jd # <<>>

\* role and interviewer_title and job_description and resume_text
InputsComplete(r, t, jd, res) == r # <<>> /\ t # <<>> /\ jd # <<>> /\ res # <<>>

\* if not (...): print("Error: All inputs are required."); return
CheckInputs ==
    /\ pc = "check"
    /\ IF InputsComplete(role, interviewer_title, job_description, resume_text)
       THEN pc' = "planning" /\ out' = out
       ELSE pc' = "failed" /\ out' = Append(out, "Error: All inputs are required.")
    /\ UNCHANGED <<line, lines, inputVars, planVars, final_md, ioVars, escaped>>


\* ------------------------------------------------------------------------
\* Chain 1: planner
\* ------------------------------------------------------------------------
\* call_openai_responses(system=SYSTEM_PLANNER, user=planner_user) is entered
IssuePlanning ==
    /\ pc = "planning"
    /\ pc' = "planning_wait"
    /\ requests' = Append(requests, Request("planning", "SYSTEM_PLANNER", <<>>, <<>>))
    /\ events' = Append(events, "planning_request")
    /\ out' = Append(out, "[Chain 1] Creating plan...")
    /\ UNCHANGED <<line, lines, inputVars, planVars, final_md, plan_file, output_file, escaped>>

\* the planning call returns resp.output_text
PlanningReturns ==
    /\ pc = "planning_wait"
    /\ \E text \in PlanTexts : plan_raw' = text
    /\ pc' = "parse"
    /\ UNCHANGED <<line, lines, inputVars, plan_data, parse_err, parse_attempts, repaired,
                   repair_err, final_md, ioVars, out, escaped>>

\* variant: a failed planning call is made again
AfterPlanningErrorRetry == "planning"

\* where main() goes when the planning call raises
AfterPlanningError == "failed"

\* except Exception as e: print(f"OpenAI error during planning: {e}"); return
PlanningRaises ==
    /\ pc = "planning_wait"
    /\ \E e \in TransportErrors : out' = Append(out, "OpenAI error during planning: " \o e)
    /\ pc' = AfterPlanningError
    /\ UNCHANGED <<line, lines, inputVars, planVars, final_md, ioVars, escaped>>

\* variant: a record holding an empty list counts as no plan
NeedsRepairEmptyField(data) ==
    \/ ~Truthy(data)
    \/ data.t = "dict" /\ \E i \in 1..Len(data.v) : ~Truthy(data.v[i][2])

\* variant: the test of the decoded plan is left out
NeedsRepairNever(data) == FALSE

\* if not plan_data:
NeedsRepair(data) == ~Truthy(data)

\* main() with the parser's result r in hand
ParseOutcome(r) ==
    /\ plan_data' = r.data
    /\ parse_err' = r.err
    /\ parse_attempts' = r.attempts
    /\ IF NeedsRepair(r.data)
       THEN /\ pc' = "repair"
            /\ out' = Append(out, "[Chain 1] Plan JSON parse failed. Attempting a one-time repair...")
       ELSE pc' = "save_plan" /\ out' = out

\* plan_data, parse_err = try_parse_json_once(plan_raw); repaired = False
ParsePlan ==
    /\ pc = "parse"
    /\ ParseOutcome(ParseResult(plan_raw))
    /\ repaired' = FALSE
    /\ UNCHANGED <<line, lines, inputVars, plan_raw, repair_err, final_md, ioVars, escaped>>

\* attempt_model_repair enters call_openai_responses with the broken text
IssueRepair ==
    /\ pc = "repair"
    /\ pc' = "repair_wait"
    /\ requests' = Append(requests,
                          Request("repair", "You repair JSON. Output strict JSON only.",
                                  plan_raw, <<>>))
    /\ events' = Append(events, "repair_request")
    /\ UNCHANGED <<line, lines, inputVars, planVars, final_md, plan_file, output_file,
                   out, escaped>>

\* if data: return data, None  else: return None, f"Repair attempt failed. ..."
RepairReturn(repaired_text, r) ==
    IF Truthy(r.data)
    THEN [data |-> r.data, err |-> NoRepairErr]
    ELSE [data |-> NoneVal, err |-> [set |-> TRUE, raw |-> repaired_text, err |-> r.err]]

\* the tail of attempt_model_repair: data, err = try_parse_json_once(repaired)
RepairResult(repaired_text) == RepairReturn(repaired_text, ParseResult(repaired_text))

\* variant: a failed repair is tried again
AfterRepairFailureRetry == "repair"

\* variant: a failed repair falls through to the save of the plan
AfterRepairFailureFallThrough == "save_plan"

\* where main() goes when attempt_model_repair returned no plan
AfterRepairFailure == "failed"

\* main() with the result res of attempt_model_repair in hand
RepairOutcome(res) ==
    /\ plan_data' = res.data
    /\ repair_err' = res.err
    /\ repaired' = (res.data.t # "None")
    /\ IF ~Truthy(res.data)
       THEN /\ pc' = AfterRepairFailure
            /\ out' = out \o <<"Plan repair failed.", "Repair attempt failed.",
                               "Raw plan output:">>
       ELSE pc' = "save_plan" /\ out' = out

\* the repair call returns; main() takes the repaired plan or gives up
RepairReturns ==
    /\ pc = "repair_wait"
    /\ \E text \in RepairTexts : RepairOutcome(RepairResult(text))
    /\ UNCHANGED <<line, lines, inputVars, plan_raw, parse_err, parse_attempts, final_md,
                   ioVars, escaped>>

\* how the exception of a failed repair call leaves main(): the call at
\* lines 214-216 is in no try block
RepairErrorOutcome == [pc |-> "crashed", escaped |-> "Exception", printed |-> <<>>]

\* the repair call raises
RepairRaises ==
    /\ pc = "repair_wait"
    /\ \E e \in TransportErrors :
          /\ pc' = RepairErrorOutcome.pc
          /\ escaped' = RepairErrorOutcome.escaped
          /\ out' = out \o RepairErrorOutcome.printed
    /\ UNCHANGED <<line, lines, inputVars, planVars, final_md, ioVars>>

\* with open("plan.json", "w") as f: json.dump(plan_data, f, indent=2, ...)
SavePlan ==
    /\ pc = "save_plan"
    /\ plan_file' = [writes |-> plan_file.writes + 1, content |-> Rendering(plan_data).indent]
    /\ events' = Append(events, "plan_written")
    /\ out' = Append(out, IF repaired THEN "[Chain 1] Plan ready. Saved to plan.json (repaired)"
                          ELSE "[Chain 1] Plan ready. Saved to plan.json")
    /\ pc' = "answering"
    /\ UNCHANGED <<line, lines, inputVars, planVars, final_md, requests, output_file, escaped>>

\* ------------------------------------------------------------------------
\* Chain 2: answerer
\* ------------------------------------------------------------------------
\* call_openai_responses(system=SYSTEM_ANSWERER, user=answer_user) is entered
IssueAnswering ==
    /\ pc = "answering"
    /\ pc' = "answering_wait"
    /\ requests' = Append(requests, Request("answering", "SYSTEM_ANSWERER", <<>>,
                                            Rendering(plan_data).compact))
    /\ events' = Append(events, "answering_request")
    /\ out' = Append(out, "[Chain 2] Generating final Markdown answer...")
    /\ UNCHANGED <<line, lines, inputVars, planVars, final_md, plan_file, output_file, escaped>>

\* variant: an empty document is rejected
AfterAnswerReturnedRejectEmpty(text) == IF text = <<>> THEN "failed" ELSE "save_output"

\* where main() goes with the text the answering call returned: no test of
\* final_md stands between the call and the write of output.md
AfterAnswerReturned(text) == "save_output"

\* the answering call returns resp.output_text
AnsweringReturns ==
    /\ pc = "answering_wait"
    /\ \E text \in AnswerTexts : final_md' = text /\ pc' = AfterAnswerReturned(text)
    /\ UNCHANGED <<line, lines, inputVars, planVars, ioVars, out, escaped>>

\* variant: a failed answering call falls through to the save of the document
AfterAnsweringErrorFallThrough == "save_output"

\* variant: a failed answering call starts the chain over
AfterAnsweringErrorReplan == "planning"

\* where main() goes when the answering call raises
AfterAnsweringError == "failed"

\* except Exception as e: print(f"OpenAI error during answering: {e}"); return
AnsweringRaises ==
    /\ pc = "answering_wait"
    /\ \E e \in TransportErrors : out' = Append(out, "OpenAI error during answering: " \o e)
    /\ pc' = AfterAnsweringError
    /\ UNCHANGED <<line, lines, inputVars, planVars, final_md, ioVars, escaped>>

\* print(final_md); with open("output.md", "w") as f: f.write(final_md)
SaveOutput ==
    /\ pc = "save_output"
    /\ output_file' = [writes |-> output_file.writes + 1, content |-> final_md]
    /\ events' = Append(events, "output_written")
    /\ out' = out \o <<"========== FINAL ANSWER (Markdown) ==========", "Saved Markdown to output.md">>
    /\ pc' = "done"
    /\ UNCHANGED <<line, lines, inputVars, planVars, final_md, requests, plan_file, escaped>>

Next ==
    \/ CheckApiKey
    \/ Input
    \/ AssignRole
    \/ AssignTitle
    \/ PromptMultilineStep
    \/ CheckInputs
    \/ IssuePlanning
    \/ PlanningReturns
    \/ PlanningRaises
    \/ ParsePlan
    \/ IssueRepair
    \/ RepairReturns
    \/ RepairRaises
    \/ SavePlan
    \/ IssueAnswering
    \/ AnsweringReturns
    \/ AnsweringRaises
    \/ SaveOutput

Spec == Init /\ [][Next]_vars

\* main() is sequential code: the statement it has reached is executed. With
\* the console delivering a line or the end of input to every input() and
\* the service answering or failing every request, a step that can be taken
\* is taken
FairSpec == Spec /\ WF_vars(Next)

\* ------------------------------------------------------------------------
\* Vocabulary of the properties
\* ------------------------------------------------------------------------
Terminal == {"done", "failed", "crashed"}
Count(stage) == Cardinality({i \in 1..Len(requests) : requests[i].stage = stage})
NoFileWritten == plan_file.writes = 0 /\ output_file.writes = 0


Last(seq) == seq[Len(seq)]
Blank(text) == \A i \in 1..Len(text) : text[i] \in WHITESPACE
HasBrace(text) == \E i \in 1..Len(text) : text[i] \in {"{", "}"}
Halted == pc \in {"failed", "crashed"}
MissingInputMsg == "Error: All inputs are required."
PlanningFailed == \E i \in 1..Len(out), e \in TransportErrors :
                     out[i] = "OpenAI error during planning: " \o e
AnsweringFailed == \E i \in 1..Len(out), e \in TransportErrors :
                      out[i] = "OpenAI error during answering: " \o e
\* the planning output has been parsed and plan_data, parse_err still hold
\* what try_parse_json_once returned for it
Parsed == parse_attempts > 0 /\ Count("repair") = 0

\* ------------------------------------------------------------------------
\* C1: the repair request is issued at most once in a run; when the repaired
\* output fails too, the run has halted with exactly that one repair request
\* ------------------------------------------------------------------------
C1_RepairAtMostOnce ==
    /\ Count("repair") <= 1
    /\ repair_err.set => pc = "failed" /\ Count("repair") = 1

C1_Witness ==
    /\ repair_err.set
    /\ repair_err.err.kind # "None"
    /\ pc = "failed"
    /\ Count("repair") = 1

\* ------------------------------------------------------------------------
\* C2: an input that is empty or only whitespace is empty after trimming, and
\* a run with an empty input goes from the completeness test to the halt with
\* the missing-input message, no request issued and no file written; nothing
\* happens after the halt
\* ------------------------------------------------------------------------
C2_MissingInputStep ==
    /\ pc = "role_got" /\ line # EOF /\ Blank(line) => role' = <<>>
    /\ pc = "title_got" /\ line # EOF /\ Blank(line) => interviewer_title' = <<>>
    /\ pc = "jd_got" /\ StopsReading(line, lines) /\ Blank(join(lines))
          => job_description' = <<>>
    /\ pc = "resume_got" /\ StopsReading(line, lines) /\ Blank(join(lines))
          => resume_text' = <<>>
    /\ pc = "check" /\ (role = <<>> \/ interviewer_title = <<>>
                        \/ job_description = <<>> \/ resume_text = <<>>)
          => /\ pc' = "failed"
             /\ out' = Append(out, MissingInputMsg)
             /\ requests' = <<>>
             /\ NoFileWritten'
    /\ pc = "failed" => UNCHANGED vars

C2_MissingInputHalts == [][C2_MissingInputStep]_vars

C2_Witness ==
    /\ pc = "failed"
    /\ out = <<MissingInputMsg>>
    /\ role # <<>> /\ interviewer_title # <<>> /\ job_description # <<>>
    /\ resume_text = <<>>
    /\ requests = <<>>

\* ------------------------------------------------------------------------
\* C3: a run that stops short of Done after its inputs were read has printed
\* a message and no exception has left main(); in particular a generation
\* call that fails in planning, repair or answering is reported, not raised
\* ------------------------------------------------------------------------
C3_NoExceptionEscapes ==
    Halted /\ escaped # "EOFError" => pc = "failed" /\ escaped = "" /\ out # <<>>

\* ------------------------------------------------------------------------
\* C4: when the repair escalation fails the run has halted, no answering
\* request has been issued and neither plan.json nor output.md was written
\* ------------------------------------------------------------------------
C4_RepairFailureHalts ==
    repair_err.set \/ escaped = "Exception"
        => Halted /\ Count("answering") = 0 /\ NoFileWritten

C4_Witness ==
    /\ repair_err.set
    /\ pc = "failed"
    /\ Last(out) = "Raw plan output:"
    /\ Count("answering") = 0
    /\ NoFileWritten

\* ------------------------------------------------------------------------
\* C5: once the planning output is parsed, a repair is under way or was
\* requested exactly when the parser returned an error for that output
\* ------------------------------------------------------------------------
C5_RepairIffParseFails ==
    parse_attempts > 0
        => ((pc = "repair" \/ Count("repair") > 0) <=> parse_err.kind # "None")

\* ------------------------------------------------------------------------
\* C6: a planning output that is the JSON text of a three-field record is
\* returned as that record by the first decode, without error, without the
\* substring decode, and no repair request follows
\* ------------------------------------------------------------------------
C6_SchemaTextParsesFirst ==
    parse_attempts > 0 /\ plan_raw \in SchemaTexts
        => /\ \E r \in SchemaRecords, st \in Styles :
                 dumps(r, st) = plan_raw /\ plan_data = r
           /\ parse_err = NoError
           /\ parse_attempts = 1
           /\ pc # "repair"
           /\ Count("repair") = 0

C6_Witness ==
    /\ pc = "save_plan"
    /\ plan_raw \in SchemaTexts
    /\ plan_data \in SchemaRecords
    /\ parse_attempts = 1
    /\ Count("repair") = 0

\* ------------------------------------------------------------------------
\* C7 as stated: a planning output made of one JSON object between a
\* non-empty prefix and a non-empty suffix parses to that object
\* ------------------------------------------------------------------------
C7_EmbeddedObjectRecovered ==
    Parsed => \A c \in EmbeddedCases :
                 plan_raw = EmbeddedText(c) => plan_data = c.obj /\ parse_err = NoError

\* C7 amended: when the prefix has no '{' and the suffix has no '}', the
\* parser returns the embedded object through the substring decode, unless
\* the whole text is itself valid JSON, and then it returns the value of the
\* whole text from the first decode
C7_EmbeddedObjectRecoveredAmended ==
    Parsed => \A c \in EmbeddedCases :
                 /\ plan_raw = EmbeddedText(c)
                 /\ ~Contains(c.prefix, "{")
                 /\ ~Contains(c.suffix, "}")
                 => IF loads(plan_raw).ok
                    THEN /\ plan_data = loads(plan_raw).val
                         /\ parse_attempts = 1
                         /\ parse_err = NoError
                    ELSE /\ plan_data = c.obj
                         /\ parse_attempts = 2
                         /\ parse_err = NoError

C7_Witness ==
    /\ Parsed
    /\ parse_attempts = 2
    /\ plan_data = PlanRecord(<<StrVal(<<"a">>)>>, <<>>, <<>>)
    /\ \E c \in EmbeddedCases :
          /\ plan_raw = EmbeddedText(c)
          /\ c.prefix = Fence \o <<"j", "s", "o", "n", NL>>
          /\ c.suffix = <<NL>> \o Fence
          /\ c.obj = plan_data

\* ------------------------------------------------------------------------
\* C8: a planning output without any brace makes the parser fail after the
\* first decode alone, with the message of that first decode
\* ------------------------------------------------------------------------
C8_NoBraceFails ==
    Parsed /\ ~HasBrace(plan_raw)
        => /\ plan_data = NoneVal
           /\ parse_attempts = 1
           /\ parse_err = ParseError("JSON parsing failed: ", loads(plan_raw).e)
           /\ parse_err.e.msg # ""

\* ------------------------------------------------------------------------
\* C9: a run whose planning output decoded on the first attempt and that met
\* no transport error issues the planning request, writes plan.json, issues
\* the answering request with the plan embedded and writes output.md, in
\* that order and once each, with no repair request, and ends in Done
\* ------------------------------------------------------------------------
HappyOrder == <<"planning_request", "plan_written", "answering_request", "output_written">>

C9_HappyPathOrder ==
    /\ parse_attempts = 1
    /\ parse_err = NoError
    /\ ~PlanningFailed /\ ~AnsweringFailed /\ escaped = ""
    => /\ events = SubSeq(HappyOrder, 1, Len(events))
       /\ Count("repair") = 0
       /\ pc \in Terminal => pc = "done" /\ events = HappyOrder
       /\ Count("answering") = 1
             => Last(requests).plan_json = dumps(plan_data, "compact")

\* ------------------------------------------------------------------------
\* C10: after a transport failure of the planning call the run has halted
\* with that single request and no file; after one of the answering call it
\* has halted with that call as its last and only answering request and
\* output.md unwritten
\* ------------------------------------------------------------------------
C10_TransportFailureHalts ==
    /\ PlanningFailed
          => pc = "failed" /\ Len(requests) = 1 /\ NoFileWritten
    /\ AnsweringFailed
          => /\ pc = "failed"
             /\ Count("answering") = 1
             /\ Last(requests).stage = "answering"
             /\ output_file.writes = 0
             /\ plan_file.writes = 1

C10_Witness ==
    /\ AnsweringFailed
    /\ pc = "failed"
    /\ plan_file.writes = 1
    /\ output_file.writes = 0


\* ------------------------------------------------------------------------
\* C11: plan.json and output.md are each written at most once; plan.json
\* only once a plan is in hand, holding that plan; output.md only after the
\* answering call returned, after plan.json, holding the returned text; a
\* failed answering call leaves plan.json as it was written
\* ------------------------------------------------------------------------
Before(a, b) ==
    \E i \in 1..Len(events), j \in 1..Len(events) : i < j /\ events[i] = a /\ events[j] = b

C11_ArtifactsWrittenOnceInOrder ==
    /\ plan_file.writes <= 1
    /\ output_file.writes <= 1
    /\ plan_file.writes = 1
          => /\ Truthy(plan_data)
             /\ parse_attempts > 0
             /\ parse_err = NoError \/ repaired
             /\ plan_file.content = dumps(plan_data, "indent")
    /\ output_file.writes = 1
          => /\ pc = "done"
             /\ plan_file.writes = 1
             /\ Before("plan_written", "answering_request")
             /\ Before("answering_request", "output_written")
             /\ ~AnsweringFailed
             /\ output_file.content = final_md
    /\ AnsweringFailed
          => plan_file = [writes |-> 1, content |-> dumps(plan_data, "indent")]

C11_Witness ==
    /\ pc = "done"
    /\ repaired
    /\ plan_file.writes = 1
    /\ output_file.writes = 1
    /\ events = <<"planning_request", "repair_request", "plan_written",
                  "answering_request", "output_written">>

\* ------------------------------------------------------------------------
\* C12: whatever the parser returns without error, whatever is written to
\* plan.json and whatever is embedded in the answering request is a record
\* that has the three fields steps, assumptions and success_criteria
\* ------------------------------------------------------------------------
HasKey(x, k) == \E i \in 1..Len(x.v) : x.v[i][1] = k
HasThreeFields(x) ==
    /\ x.t = "dict"
    /\ HasKey(x, KeySteps) /\ HasKey(x, KeyAssumptions) /\ HasKey(x, KeySuccessCriteria)

C12_PlanHasThreeFields ==
    /\ Parsed /\ parse_err = NoError => HasThreeFields(plan_data)
    /\ plan_file.writes = 1 => HasThreeFields(plan_data)
    /\ Count("answering") = 1 => HasThreeFields(plan_data)

\* ------------------------------------------------------------------------
\* C13: when the direct decode and the substring decode both fail, the
\* failure returned carries the message of the first decode error and the
\* message of the substring decode error
\* ------------------------------------------------------------------------
BothDecodesFailed == parse_attempts = 2 /\ parse_err # NoError

C13_BothErrorsCarried ==
    BothDecodesFailed
        => /\ parse_err.e = loads(plan_raw).e
           /\ parse_err.e = loads(Candidate(plan_raw)).e

\* C13 as the code has it: when both decodes fail, the failure returned is
\* the label "JSON parsing failed (initial + substring): " followed by the
\* message of the substring decode error, and nothing else
C13_SubstringErrorOnly ==
    BothDecodesFailed
        => /\ ~loads(plan_raw).ok
           /\ parse_err = ParseError("JSON parsing failed (initial + substring): ",
                                     loads(Candidate(plan_raw)).e)

C13_Witness ==
    /\ BothDecodesFailed
    /\ find(plan_raw, "{") < rfind(plan_raw, "}")
    /\ parse_err.e # loads(plan_raw).e

\* ------------------------------------------------------------------------
\* C14: after a failed direct decode the substring decode is attempted at
\* most once, and only when the text has a '{' and a '}' with the first '{'
\* before the last '}'; when the last '}' comes before the first '{' no
\* second decode is made and the failure is the first decode error
\* ------------------------------------------------------------------------
BracesReversed(text) ==
    /\ HasBrace(text)
    /\ Contains(text, "{") /\ Contains(text, "}")
    /\ rfind(text, "}") < find(text, "{")

C14_SubstringOnlyWhenOrdered ==
    parse_attempts > 0
        => /\ parse_attempts <= 2
           /\ parse_attempts = 2
                 => /\ Contains(plan_raw, "{") /\ Contains(plan_raw, "}")
                    /\ find(plan_raw, "{") < rfind(plan_raw, "}")
           /\ BracesReversed(plan_raw)
                 => /\ parse_attempts = 1
                    /\ parse_err = ParseError("JSON parsing failed: ", loads(plan_raw).e)

\* ------------------------------------------------------------------------
\* C15: attempt_model_repair returns a failure exactly when the parser
\* fails on the repair response, and the failure carries the raw repair
\* text together with the parse error the parser produced
\* ------------------------------------------------------------------------
C15_RepairFailsIffParserFails ==
    repair_err.set
        => /\ repair_err.err # NoError
           /\ repair_err.err = try_parse_json_once(repair_err.raw).err
           /\ ~loads(repair_err.raw).ok

\* ------------------------------------------------------------------------
\* C16: the four inputs embedded in the answering request are those of the
\* planning request and those collected; the plan embedded in the answering
\* request is the value the parser or the repair returned, and it is the
\* value written to plan.json
\* ------------------------------------------------------------------------
SameInputs(p, a) ==
    /\ a.role = p.role /\ a.role = role
    /\ a.interviewer_title = p.interviewer_title /\ a.interviewer_title = interviewer_title
    /\ a.job_description = p.job_description /\ a.job_description = job_description
    /\ a.resume_text = p.resume_text /\ a.resume_text = resume_text

\* where the rendering is one the decoder of this module reads back
ReadsBackAs(decoded, x) == decoded.ok => decoded.val = x

C16_NothingAlteredBetweenStages ==
    Count("answering") = 1
        => /\ requests[1].stage = "planning" /\ Last(requests).stage = "answering"
           /\ SameInputs(requests[1], Last(requests))
           /\ Last(requests).plan_json = dumps(plan_data, "compact")
           /\ plan_file.content = dumps(plan_data, "indent")
           /\ ReadsBackAs(loads(Last(requests).plan_json), plan_data)
           /\ ReadsBackAs(loads(plan_file.content), plan_data)
           /\ ~repaired => plan_data = try_parse_json_once(plan_raw).data
           /\ repaired => \E text \in RepairTexts : plan_data = RepairResult(text).data

C16_Witness ==
    /\ Count("answering") = 1
    /\ repaired
    /\ plan_data \in SchemaRecords
    /\ resume_text # <<>>
    /\ loads(plan_file.content).ok /\ loads(Last(requests).plan_json).ok
    /\ plan_file.content # Last(requests).plan_json

\* ------------------------------------------------------------------------
\* C17: whatever text the answering call returns, the empty text included,
\* the next step writes exactly that text to output.md and ends the run in
\* done; no step leads from a returned answer to failed
\* ------------------------------------------------------------------------
C17_AnswerStep ==
    /\ pc = "answering_wait" /\ ~AnsweringFailed'
          => pc' = "save_output" /\ final_md' \in AnswerTexts
    /\ pc = "save_output"
          => /\ pc' = "done"
             /\ output_file' = [writes |-> 1, content |-> final_md]
             /\ final_md' = final_md

C17_AnswerAlwaysSaved == [][C17_AnswerStep]_vars

C17_Witness ==
    /\ pc = "done"
    /\ final_md = <<>>
    /\ output_file = [writes |-> 1, content |-> <<>>]

\* ------------------------------------------------------------------------
\* C18: a run makes at most three generation requests, in the order
\* planning, repair (optional), answering; the repair request only after
\* the planning output was parsed; the answering request only with a plan
\* in hand and written; none at all when the API key or an input is missing
\* ------------------------------------------------------------------------
Stages == [i \in 1..Len(requests) |-> requests[i].stage]
ApiKeyMissing == \E i \in 1..Len(out) : out[i] = "Error: OPENAI_API_KEY not found."
InputMissing == \E i \in 1..Len(out) : out[i] = MissingInputMsg

C18_AtMostThreeRequestsInOrder ==
    /\ Len(requests) <= 3
    /\ Stages \in {<<>>, <<"planning">>, <<"planning", "repair">>,
                   <<"planning", "answering">>,
                   <<"planning", "repair", "answering">>}
    /\ Count("repair") = 1 => parse_attempts > 0 /\ ~Truthy(try_parse_json_once(plan_raw).data)
    /\ Count("answering") = 1 => Truthy(plan_data) /\ plan_file.writes = 1
    /\ ApiKeyMissing \/ InputMissing => requests = <<>> /\ pc = "failed"

C18_Witness ==
    /\ pc = "done"
    /\ Stages = <<"planning", "repair", "answering">>

\* ------------------------------------------------------------------------
\* C19: with input collection finishing and every request returning or
\* failing, every run ends (in done, in failed, or by an exception leaving
\* main(), see C3), and no step leads back: the stage never decreases and,
\* past input collection, the position in main() strictly advances
\* ------------------------------------------------------------------------
\* the stage of the run that a position of main() belongs to:
\* 0 collecting inputs, 1 planning, 2 parsing, 3 repairing, 4 answering,
\* 5 ended
StageRank(p) ==
    CASE p \in {"planning", "planning_wait"} -> 1
      [] p = "parse" -> 2
      [] p \in {"repair", "repair_wait"} -> 3
      [] p \in {"save_plan", "answering", "answering_wait", "save_output"} -> 4
      [] p \in Terminal -> 5
      [] OTHER -> 0

\* the order of the positions past input collection in the text of main()
PcRank(p) ==
    CASE p = "planning" -> 1 [] p = "planning_wait" -> 2 [] p = "parse" -> 3
      [] p = "repair" -> 4 [] p = "repair_wait" -> 5 [] p = "save_plan" -> 6
      [] p = "answering" -> 7 [] p = "answering_wait" -> 8
      [] p = "save_output" -> 9 [] p \in Terminal -> 10
      [] OTHER -> 0

C19_ForwardStep ==
    /\ pc \notin Terminal
    /\ StageRank(pc') >= StageRank(pc)
    /\ StageRank(pc) > 0 => PcRank(pc') > PcRank(pc)

OnlyBlankLines(collected) == \A i \in 1..Len(collected) : Blank(collected[i])
Trimmed(text) == text = <<>> \/ (text[1] \notin WHITESPACE /\ Last(text) \notin WHITESPACE)

C20_MultilineStep ==
    /\ pc \in {"jd_got", "resume_got"} /\ (line = EOF \/ (Blank(line) /\ lines # <<>>))
          => /\ pc' = (IF pc = "jd_got" THEN "resume_in" ELSE "check")
             /\ Trimmed(job_description') /\ Trimmed(resume_text')
             /\ OnlyBlankLines(lines)
                   => (IF pc = "jd_got" THEN job_description' ELSE resume_text') = <<>>
             /\ ~OnlyBlankLines(lines)
                   => (IF pc = "jd_got" THEN job_description' ELSE resume_text') # <<>>
    /\ pc \in {"jd_got", "resume_got"} /\ ~(line = EOF \/ (Blank(line) /\ lines # <<>>))
          => /\ lines' = Append(lines, line)
             /\ pc' = (IF pc = "jd_got" THEN "jd_in" ELSE "resume_in")
    /\ pc = "check" /\ (job_description = <<>> \/ resume_text = <<>>)
          => pc' = "failed" /\ Last(out') = MissingInputMsg /\ requests' = <<>>

C20_MultilineStops == [][C20_MultilineStep]_vars

C20_Witness ==
    /\ pc = "jd_got"
    /\ lines = << <<" ">> >>
    /\ line = <<>>

====
